---- MODULE Spec2Model ----
(***************************************************************************)
(* Model of the sharding PoC:                                              *)
(*   - the static list resolver and the periodic DNS resolver              *)
(*     (package loadbalancer, resolver file),                              *)
(*   - resolver registration, the service config and NewClientConn         *)
(*     (balancer.go), the health server registration,                      *)
(*   - the cluster setup program (cmd/sharding-poc),                       *)
(*   - the two HA labs that stop containers (package ha),                  *)
(*   - the polling waits and the cluster initialisation operations         *)
(*     (packages cluster, security, ha).                                   *)
(*                                                                         *)
(* The specifications share the variables:                                 *)
(*   Spec        one PeriodicDNSResolver instance, its refresh goroutine,  *)
(*               a clock in seconds and several callers of ResolveNow and  *)
(*               Close;                                                    *)
(*   SpecStatic  RegisterResolvers / NewClientConn for a target of scheme  *)
(*               static or dns, and staticResolverBuilder.Build on every   *)
(*               endpoint string up to MaxLen characters, followed by      *)
(*               ResolveNow / Close calls on the static resolver;          *)
(*   SpecService RegisterHealthServer and later SetServingStatus calls;    *)
(*   SpecConfig  DefaultServiceConfig on every service name up to          *)
(*               MaxNameLen characters, and NewClientConn;                 *)
(*   SpecSetup   main of the cluster setup, every call free to fail;       *)
(*   SpecHA      RunShardFailoverTest, then RunConfigServerOutageTest,     *)
(*               every call free to fail;                                  *)
(*   SpecLive    Spec with the fairness of the refresh goroutine and of    *)
(*               the callers of Close;                                     *)
(*   SpecWait    one polling wait (WaitForHost, WaitForPrimary,            *)
(*               WaitForNewPrimary), with the fairness of its goroutine;   *)
(*   SpecInit    one cluster initialisation operation on every reply of    *)
(*               the server.                                               *)
(***************************************************************************)
EXTENDS Integers, Sequences, FiniteSets

\* ------------------------------------------------------------------ bounds
MaxTime == 65        \* seconds of clock the periodic model observes
MaxOps == 3          \* ResolveNow / Close calls started by the callers
MaxLen == 5          \* characters of a static endpoint string
MaxStaticOps == 3    \* ResolveNow / Close calls on a static resolver
MaxHealthSets == 2   \* SetServingStatus calls made after RegisterHealthServer
MaxNameLen == 3      \* characters of a service name given to DefaultServiceConfig
MaxWaitTimeout == 5  \* seconds of timeout given to a polling wait
MaxMembers == 2      \* members given to WaitForNewPrimary
MaxWords == 2        \* words of a server error's text

\* --------------------------------------------------------------- constants
\* defaultReResolveInterval = 30 * time.Second, in seconds.
defaultReResolveInterval == 30

Callers == {"c1", "c2"}
NoOne == "nobody"
\* No document yet, no dial options yet.
NoDoc == [none |-> TRUE]
NoConn == [scheme |-> "none", builder |-> "none", handle |-> "none", err |-> "none",
           opts |-> NoDoc]

\* Intervals a periodicDNSBuilder may carry: its zero value, a short one and
\* the 30 s of the specification.
Intervals == {0, 20, defaultReResolveInterval}

VARIABLES
    \* resolver registry (grpc's process-wide scheme -> builder map)
    registry,
    \* ---- PeriodicDNSResolver instance
    rBuilt,          \* "none" | "ok" | "error": outcome of periodicDNSBuilder.Build
    interval,        \* r.interval, seconds
    doneClosed,      \* r.done has been closed
    doneCloses,      \* number of close(r.done) executed
    innerCloses,     \* number of r.inner.Close() calls
    innerResolves,   \* number of r.inner.ResolveNow() calls
    onceDone,        \* r.once: done flag
    onceM,           \* r.once: holder of its mutex, or NoOne
    callerPc,        \* position of each caller
    opsStarted,      \* calls started by the callers
    closeCalls,      \* Close calls started
    closeReturns,    \* Close calls that have returned
    manualCalls,     \* ResolveNow calls made by callers
    loopPc,          \* refreshLoop goroutine: "none","start","select","resolve","exited"
    tickerC,         \* ticker.C, a channel of capacity 1: number of ticks buffered
    tickerOn,        \* the ticker is running (created and not stopped)
    now,             \* clock, seconds since Build
    panic,           \* "none" or the panic that ended the process
    tickAfterClose,  \* the loop called inner.ResolveNow after a Close had returned
    manualAfterClose,\* a caller's ResolveNow reached inner.ResolveNow after a Close had returned
    \* ---- static resolver
    endpoint,        \* target.Endpoint(), a sequence of characters
    sResolver,       \* "none" | "staticResolver": what Build returned
    sErr,            \* "unbuilt" | "nil" | the error Build returned
    published,       \* sequence of the states handed to cc.UpdateState
    sCalls,          \* the ResolveNow / Close calls made on the static resolver
    \* ---- connection
    conn,            \* NoConn, or what NewClientConn returned and the builder
                     \* the registry held for the target's scheme
    \* ---- health server of the gRPC server process
    hStatus,         \* status held for each service name, "absent" when none
    hRegistered,     \* the health service is registered on the gRPC server
    hSets,           \* SetServingStatus calls made on the returned server
    \* ---- service config
    cfgName,         \* service name given to DefaultServiceConfig, a sequence of characters
    cfgDoc,          \* NoDoc, or the document DefaultServiceConfig returned
    \* ---- cluster setup program (cmd/sharding-poc)
    kPc,             \* index in SetupProgram of the next call main makes
    kLog,            \* the calls made so far, each with its outcome
    kStatus,         \* "running" | "exit 0" | "exit 1"
    \* ---- HA labs (package ha, run one after the other by the labs' main)
    tTest,           \* "shard" | "config" | "done": the lab main is at
    tPc,             \* position inside the running test, "return" once it returned
    tPrimary,        \* primaryContainer of the shard failover test
    tIdx,            \* index in configServers of the stop / restore loop
    tAttempt,        \* attempt of the post-failover insert loop
    tStopped,        \* containers the running test stopped with StopContainer
    tStartIssued,    \* of those and others, the containers StartContainer was
                     \* called for since their stop
    tResult,         \* "none", "nil" or the error the test returned
    \* ---- a polling wait (WaitForHost, WaitForPrimary, WaitForNewPrimary)
    wFn,             \* the wait that was called, "none" before the call
    wMembers,        \* len(members) of WaitForNewPrimary, 1 for the others
    wNow,            \* time.Now(), seconds
    wDeadline,       \* deadline
    wPc,             \* "none" | "check" | "probe" | "sleep" | "race" | "done"
    wMember,         \* index of the member the probe is at
    wLast,           \* outcome of the last probe, "none" before the first
    wResult,         \* "none" or what the wait returned
    wCtx,            \* ctx.Done() is closed
    \* ---- one cluster initialisation operation
    iOp,             \* the operation
    iReply,          \* what the server answers to its command
    iResult          \* "none", "nil" or "error": what the operation returned

pvars == <<rBuilt, interval, doneClosed, doneCloses, innerCloses, innerResolves,
           onceDone, onceM, callerPc, opsStarted, closeCalls, closeReturns,
           manualCalls, loopPc, tickerC, tickerOn, now, panic, tickAfterClose,
           manualAfterClose>>
svars == <<endpoint, sResolver, sErr, published, sCalls>>
hvars == <<hStatus, hRegistered, hSets>>
lbvars == <<registry, pvars, svars, conn>>
cvars == <<cfgName, cfgDoc>>
kvars == <<kPc, kLog, kStatus>>
tvars == <<tTest, tPc, tPrimary, tIdx, tAttempt, tStopped, tStartIssued, tResult>>
wvars == <<wFn, wMembers, wNow, wDeadline, wPc, wMember, wLast, wResult, wCtx>>
ivars == <<iOp, iReply, iResult>>
xvars == <<hvars, cvars, kvars, tvars, wvars, ivars>>
vars == <<registry, pvars, svars, conn, xvars>>

\* ---------------------------------------------------------------- registry
\* Schemes of the targets dialed: the two of NewClientConn's comment and one
\* that nothing registers.
Schemes == {"static", "dns", "bogus"}

\* grpc.NewClient's default scheme, used for a target whose scheme has no
\* registered builder.
DefaultScheme == "dns"

\* grpc registers its own dns builder at init; nothing is registered for
\* "static" until RegisterResolvers runs, and nothing ever for "bogus".
RegistryInit == [s \in Schemes |-> IF s = "dns" THEN "grpcDNS" ELSE "none"]

\* resolver.Get(scheme)
Get(reg, scheme) == reg[scheme]

\* resolver.Register(b): the builder is stored under b.Scheme()
Register(reg, scheme, builder) == [reg EXCEPT ![scheme] = builder]

\* ------------------------------------------------- PeriodicDNSResolver
PInit ==
    /\ rBuilt = "none"
    /\ interval = 0
    /\ doneClosed = FALSE
    /\ doneCloses = 0
    /\ innerCloses = 0
    /\ innerResolves = 0
    /\ onceDone = FALSE
    /\ onceM = NoOne
    /\ callerPc = [c \in Callers |-> "idle"]
    /\ opsStarted = 0
    /\ closeCalls = 0
    /\ closeReturns = 0
    /\ manualCalls = 0
    /\ loopPc = "none"
    /\ tickerC = 0
    /\ tickerOn = FALSE
    /\ now = 0
    /\ panic = "none"
    /\ tickAfterClose = FALSE
    /\ manualAfterClose = FALSE

SInit ==
    /\ sResolver = "none"
    /\ sErr = "unbuilt"
    /\ published = <<>>
    /\ sCalls = <<>>

Alive == panic = "none"

\* periodicDNSBuilder.Build: gets the dns builder, builds the inner resolver,
\* and on success starts the refresh goroutine.
PeriodicBuild(iv, innerErr) ==
    /\ Alive
    /\ rBuilt = "none"
    /\ IF Get(registry, "dns") = "none" \/ innerErr
         THEN /\ rBuilt' = "error"
              /\ UNCHANGED <<interval, loopPc>>
         ELSE /\ rBuilt' = "ok"
              /\ interval' = iv
              /\ loopPc' = "start"
    /\ UNCHANGED <<doneClosed, doneCloses, innerCloses, innerResolves, onceDone,
                   onceM, callerPc, opsStarted, closeCalls, closeReturns,
                   manualCalls, tickerC, tickerOn, now, panic, tickAfterClose,
                   manualAfterClose>>
    /\ UNCHANGED <<registry, svars, conn, xvars>>

\* refreshLoop, line 111-112: ticker := time.NewTicker(r.interval), which
\* panics on a non-positive interval.
LoopStartEager ==
    /\ Alive
    /\ loopPc = "start"
    /\ IF interval <= 0
         THEN /\ panic' = "non-positive interval for NewTicker"
              /\ UNCHANGED <<loopPc, tickerOn, innerResolves>>
         ELSE /\ tickerOn' = TRUE
              /\ innerResolves' = innerResolves + 1
              /\ loopPc' = "select"
              /\ UNCHANGED panic
    /\ UNCHANGED <<rBuilt, interval, doneClosed, doneCloses, innerCloses,
                   onceDone, onceM, callerPc, opsStarted, closeCalls,
                   closeReturns, manualCalls, tickerC, now, tickAfterClose,
                   manualAfterClose>>
    /\ UNCHANGED <<registry, svars, conn, xvars>>

LoopStart ==
    /\ Alive
    /\ loopPc = "start"
    /\ IF interval <= 0
         THEN /\ panic' = "non-positive interval for NewTicker"
              /\ UNCHANGED <<loopPc, tickerOn>>
         ELSE /\ tickerOn' = TRUE
              /\ loopPc' = "select"
              /\ UNCHANGED panic
    /\ UNCHANGED <<rBuilt, interval, doneClosed, doneCloses, innerCloses,
                   innerResolves, onceDone, onceM, callerPc, opsStarted,
                   closeCalls, closeReturns, manualCalls, tickerC, now,
                   tickAfterClose, manualAfterClose>>
    /\ UNCHANGED <<registry, svars, conn, xvars>>

\* select, case <-ticker.C: ready when a tick is buffered.
LoopRecvTick ==
    /\ Alive
    /\ loopPc = "select"
    /\ tickerC > 0
    /\ tickerC' = tickerC - 1
    /\ loopPc' = "resolve"
    /\ UNCHANGED <<rBuilt, interval, doneClosed, doneCloses, innerCloses,
                   innerResolves, onceDone, onceM, callerPc, opsStarted,
                   closeCalls, closeReturns, manualCalls, tickerOn, now, panic,
                   tickAfterClose, manualAfterClose>>
    /\ UNCHANGED <<registry, svars, conn, xvars>>

\* A loop that returns on r.done without the deferred ticker.Stop().
LoopRecvDoneKeepsTicker ==
    /\ Alive
    /\ loopPc = "select"
    /\ doneClosed
    /\ loopPc' = "exited"
    /\ UNCHANGED <<rBuilt, interval, doneClosed, doneCloses, innerCloses,
                   innerResolves, onceDone, onceM, callerPc, opsStarted,
                   closeCalls, closeReturns, manualCalls, tickerC, tickerOn, now,
                   panic, tickAfterClose, manualAfterClose>>
    /\ UNCHANGED <<registry, svars, conn, xvars>>

\* select, case <-r.done: ready once the channel is closed; return runs the
\* deferred ticker.Stop(). When both cases are ready Go picks either.
LoopRecvDone ==
    /\ Alive
    /\ loopPc = "select"
    /\ doneClosed
    /\ loopPc' = "exited"
    /\ tickerOn' = FALSE
    /\ UNCHANGED <<rBuilt, interval, doneClosed, doneCloses, innerCloses,
                   innerResolves, onceDone, onceM, callerPc, opsStarted,
                   closeCalls, closeReturns, manualCalls, tickerC, now, panic,
                   tickAfterClose, manualAfterClose>>
    /\ UNCHANGED <<registry, svars, conn, xvars>>

\* line 117: r.inner.ResolveNow(resolver.ResolveNowOptions{})
LoopResolve ==
    /\ Alive
    /\ loopPc = "resolve"
    /\ innerResolves' = innerResolves + 1
    /\ tickAfterClose' = (tickAfterClose \/ closeReturns > 0)
    /\ loopPc' = "select"
    /\ UNCHANGED <<rBuilt, interval, doneClosed, doneCloses, innerCloses,
                   onceDone, onceM, callerPc, opsStarted, closeCalls,
                   closeReturns, manualCalls, tickerC, tickerOn, now, panic,
                   manualAfterClose>>
    /\ UNCHANGED <<registry, svars, conn, xvars>>

\* The goroutine has a step it can take now.
LoopEnabled ==
    \/ loopPc \in {"start", "resolve"}
    \/ loopPc = "select" /\ (tickerC > 0 \/ doneClosed)

\* A running ticker started at second 0 delivers a tick every interval seconds.
TickDue(t) == tickerOn /\ interval > 0 /\ t % interval = 0

\* One second passes. The goroutine's steps take no time on the clock's scale:
\* a second passes only while the goroutine is blocked in select or gone. A
\* tick that finds ticker.C full is dropped.
TimeAdvance ==
    /\ Alive
    /\ rBuilt = "ok"
    /\ ~LoopEnabled
    /\ now < MaxTime
    /\ now' = now + 1
    /\ tickerC' = IF TickDue(now + 1) THEN 1 ELSE tickerC
    /\ UNCHANGED <<rBuilt, interval, doneClosed, doneCloses, innerCloses,
                   innerResolves, onceDone, onceM, callerPc, opsStarted,
                   closeCalls, closeReturns, manualCalls, loopPc, tickerOn,
                   panic, tickAfterClose, manualAfterClose>>
    /\ UNCHANGED <<registry, svars, conn, xvars>>

\* ------------------------------------------------------------- callers
\* A caller starts r.Close(): r.once.Do(func() {...}).
CallClose(c) ==
    /\ Alive
    /\ rBuilt = "ok"
    /\ callerPc[c] = "idle"
    /\ opsStarted < MaxOps
    /\ opsStarted' = opsStarted + 1
    /\ closeCalls' = closeCalls + 1
    /\ callerPc' = [callerPc EXCEPT ![c] = "onceDo"]
    /\ UNCHANGED <<rBuilt, interval, doneClosed, doneCloses, innerCloses,
                   innerResolves, onceDone, onceM, closeReturns, manualCalls,
                   loopPc, tickerC, tickerOn, now, panic, tickAfterClose,
                   manualAfterClose>>
    /\ UNCHANGED <<registry, svars, conn, xvars>>

\* A Close written without the once: the body runs on every call.
CloseWithoutOnce(c) ==
    /\ Alive
    /\ callerPc[c] = "onceDo"
    /\ callerPc' = [callerPc EXCEPT ![c] = "closeDone"]
    /\ UNCHANGED <<rBuilt, interval, doneClosed, doneCloses, innerCloses,
                   innerResolves, onceDone, onceM, opsStarted, closeCalls,
                   closeReturns, manualCalls, loopPc, tickerC, tickerOn, now,
                   panic, tickAfterClose, manualAfterClose>>
    /\ UNCHANGED <<registry, svars, conn, xvars>>

\* r.once.Do, fast path: a set done flag returns at once, otherwise the slow
\* path is entered.
OnceDo(c) ==
    /\ Alive
    /\ callerPc[c] = "onceDo"
    /\ IF onceDone
         THEN /\ callerPc' = [callerPc EXCEPT ![c] = "idle"]
              /\ closeReturns' = closeReturns + 1
         ELSE /\ callerPc' = [callerPc EXCEPT ![c] = "onceLock"]
              /\ UNCHANGED closeReturns
    /\ UNCHANGED <<rBuilt, interval, doneClosed, doneCloses, innerCloses,
                   innerResolves, onceDone, onceM, opsStarted, closeCalls,
                   manualCalls, loopPc, tickerC, tickerOn, now, panic,
                   tickAfterClose, manualAfterClose>>
    /\ UNCHANGED <<registry, svars, conn, xvars>>

\* r.once.Do, slow path: the once's mutex is taken (blocking while held).
OnceLock(c) ==
    /\ Alive
    /\ callerPc[c] = "onceLock"
    /\ onceM = NoOne
    /\ onceM' = c
    /\ callerPc' = [callerPc EXCEPT ![c] = "onceSlow"]
    /\ UNCHANGED <<rBuilt, interval, doneClosed, doneCloses, innerCloses,
                   innerResolves, onceDone, opsStarted, closeCalls,
                   closeReturns, manualCalls, loopPc, tickerC, tickerOn, now,
                   panic, tickAfterClose, manualAfterClose>>
    /\ UNCHANGED <<registry, svars, conn, xvars>>

\* r.once.Do, slow path: the flag is read again under the mutex.
OnceSlow(c) ==
    /\ Alive
    /\ callerPc[c] = "onceSlow"
    /\ callerPc' = [callerPc EXCEPT ![c] = IF onceDone THEN "onceUnlock"
                                                     ELSE "closeDone"]
    /\ UNCHANGED <<rBuilt, interval, doneClosed, doneCloses, innerCloses,
                   innerResolves, onceDone, onceM, opsStarted, closeCalls,
                   closeReturns, manualCalls, loopPc, tickerC, tickerOn, now,
                   panic, tickAfterClose, manualAfterClose>>
    /\ UNCHANGED <<registry, svars, conn, xvars>>

\* line 130: close(r.done); closing a closed channel panics.
CloseDone(c) ==
    /\ Alive
    /\ callerPc[c] = "closeDone"
    /\ IF doneClosed
         THEN /\ panic' = "close of closed channel"
              /\ UNCHANGED <<doneClosed, doneCloses, callerPc>>
         ELSE /\ doneClosed' = TRUE
              /\ doneCloses' = doneCloses + 1
              /\ callerPc' = [callerPc EXCEPT ![c] = "innerClose"]
              /\ UNCHANGED panic
    /\ UNCHANGED <<rBuilt, interval, innerCloses, innerResolves, onceDone,
                   onceM, opsStarted, closeCalls, closeReturns, manualCalls,
                   loopPc, tickerC, tickerOn, now, tickAfterClose,
                   manualAfterClose>>
    /\ UNCHANGED <<registry, svars, conn, xvars>>

\* line 131: r.inner.Close()
InnerClose(c) ==
    /\ Alive
    /\ callerPc[c] = "innerClose"
    /\ innerCloses' = innerCloses + 1
    /\ callerPc' = [callerPc EXCEPT ![c] = "onceStore"]
    /\ UNCHANGED <<rBuilt, interval, doneClosed, doneCloses, innerResolves,
                   onceDone, onceM, opsStarted, closeCalls, closeReturns,
                   manualCalls, loopPc, tickerC, tickerOn, now, panic,
                   tickAfterClose, manualAfterClose>>
    /\ UNCHANGED <<registry, svars, conn, xvars>>

\* r.once.Do: the done flag is stored after the function has returned.
OnceStore(c) ==
    /\ Alive
    /\ callerPc[c] = "onceStore"
    /\ onceDone' = TRUE
    /\ callerPc' = [callerPc EXCEPT ![c] = "onceUnlock"]
    /\ UNCHANGED <<rBuilt, interval, doneClosed, doneCloses, innerCloses,
                   innerResolves, onceM, opsStarted, closeCalls, closeReturns,
                   manualCalls, loopPc, tickerC, tickerOn, now, panic,
                   tickAfterClose, manualAfterClose>>
    /\ UNCHANGED <<registry, svars, conn, xvars>>

\* r.once.Do: the mutex is released and Close returns.
OnceUnlock(c) ==
    /\ Alive
    /\ callerPc[c] = "onceUnlock"
    /\ onceM' = IF onceM = c THEN NoOne ELSE onceM
    /\ closeReturns' = closeReturns + 1
    /\ callerPc' = [callerPc EXCEPT ![c] = "idle"]
    /\ UNCHANGED <<rBuilt, interval, doneClosed, doneCloses, innerCloses,
                   innerResolves, onceDone, opsStarted, closeCalls,
                   manualCalls, loopPc, tickerC, tickerOn, now, panic,
                   tickAfterClose, manualAfterClose>>
    /\ UNCHANGED <<registry, svars, conn, xvars>>

\* PeriodicDNSResolver.ResolveNow: r.inner.ResolveNow(opts), whatever the
\* state of the resolver.
\* A ResolveNow that also restarts the ticker's period, dropping a tick that
\* is waiting.
ResolveNowResetsTicker(c) ==
    /\ Alive
    /\ rBuilt = "ok"
    /\ callerPc[c] = "idle"
    /\ opsStarted < MaxOps
    /\ opsStarted' = opsStarted + 1
    /\ manualCalls' = manualCalls + 1
    /\ innerResolves' = innerResolves + 1
    /\ tickerC' = 0
    /\ manualAfterClose' = (manualAfterClose \/ closeReturns > 0)
    /\ UNCHANGED <<rBuilt, interval, doneClosed, doneCloses, innerCloses,
                   onceDone, onceM, callerPc, closeCalls, closeReturns,
                   loopPc, tickerOn, now, panic, tickAfterClose>>
    /\ UNCHANGED <<registry, svars, conn, xvars>>

ResolveNow(c) ==
    /\ Alive
    /\ rBuilt = "ok"
    /\ callerPc[c] = "idle"
    /\ opsStarted < MaxOps
    /\ opsStarted' = opsStarted + 1
    /\ manualCalls' = manualCalls + 1
    /\ innerResolves' = innerResolves + 1
    /\ manualAfterClose' = (manualAfterClose \/ closeReturns > 0)
    /\ UNCHANGED <<rBuilt, interval, doneClosed, doneCloses, innerCloses,
                   onceDone, onceM, callerPc, closeCalls, closeReturns,
                   loopPc, tickerC, tickerOn, now, panic, tickAfterClose>>
    /\ UNCHANGED <<registry, svars, conn, xvars>>

\* ----------------------------------------------------------- health server
\* The service name RegisterHealthServer and NewClientConn both spell out.
ShardingServiceName == "sharding.v1.ShardingService"

\* Names a health status is kept for: the overall server, the sharding
\* service and one service the repository never mentions.
HealthNames == {"", ShardingServiceName, "other.v1.Service"}
ServingStatuses == {"UNKNOWN", "SERVING", "NOT_SERVING", "SERVICE_UNKNOWN"}

\* No health server exists before RegisterHealthServer.
HInit ==
    /\ hStatus = [n \in HealthNames |-> "absent"]
    /\ hRegistered = FALSE
    /\ hSets = 0

\* State outside the load-balancing layer, before anything has run.
\* No service config has been asked for.
CInit ==
    /\ cfgName = <<>>
    /\ cfgDoc = NoDoc

\* main of the cluster setup has made no call yet.
KInit ==
    /\ kPc = 1
    /\ kLog = <<>>
    /\ kStatus = "running"

\* The labs' main is connected and about to run the shard failover test.
TInit ==
    /\ tTest = "shard"
    /\ tPc = "find"
    /\ tPrimary = ""
    /\ tIdx = 1
    /\ tAttempt = 0
    /\ tStopped = {}
    /\ tStartIssued = {}
    /\ tResult = "none"

\* No polling wait has been called; the clock of the wait starts at 0.
WInit ==
    /\ wFn = "none"
    /\ wMembers = 0
    /\ wNow = 0
    /\ wDeadline = 0
    /\ wPc = "none"
    /\ wMember = 0
    /\ wLast = "none"
    /\ wResult = "none"
    /\ wCtx = FALSE

\* No reply of the server.
NoReply == [kind |-> "none", text |-> <<>>]

\* No initialisation operation has been called.
IInit ==
    /\ iOp = "none"
    /\ iReply = NoReply
    /\ iResult = "none"

XInit ==
    /\ HInit
    /\ CInit
    /\ KInit
    /\ TInit
    /\ WInit
    /\ IInit

\* ------------------------------------------------------ specification Spec
Init ==
    /\ registry = RegistryInit
    /\ PInit
    /\ endpoint = <<>>
    /\ SInit
    /\ conn = NoConn
    /\ XInit

Next ==
    \/ \E iv \in Intervals, innerErr \in BOOLEAN : PeriodicBuild(iv, innerErr)
    \/ LoopStart
    \/ LoopRecvTick
    \/ LoopRecvDone
    \/ LoopResolve
    \/ TimeAdvance
    \/ \E c \in Callers : CallClose(c)
    \/ \E c \in Callers : OnceDo(c)
    \/ \E c \in Callers : OnceLock(c)
    \/ \E c \in Callers : OnceSlow(c)
    \/ \E c \in Callers : CloseDone(c)
    \/ \E c \in Callers : InnerClose(c)
    \/ \E c \in Callers : OnceStore(c)
    \/ \E c \in Callers : OnceUnlock(c)
    \/ \E c \in Callers : ResolveNow(c)

Spec == Init /\ [][Next]_vars

\* ---------------------------------------------------- specification SpecLive
\* Spec under fair scheduling: a goroutine that can take a step eventually
\* takes it (the refresh goroutine and every caller inside Close), and a
\* select whose done case is ready again and again eventually takes it, since
\* Go picks among the ready cases at random. No step is forced on the clock
\* or on callers that have not started a call.
Fairness ==
    /\ WF_vars(LoopStart)
    /\ WF_vars(LoopResolve)
    /\ SF_vars(LoopRecvDone)
    /\ \A c \in Callers :
          /\ WF_vars(OnceDo(c))
          /\ WF_vars(OnceLock(c))
          /\ WF_vars(OnceSlow(c))
          /\ WF_vars(CloseDone(c))
          /\ WF_vars(InnerClose(c))
          /\ WF_vars(OnceStore(c))
          /\ WF_vars(OnceUnlock(c))

SpecLive == Init /\ [][Next]_vars /\ Fairness

\* ------------------------------------------------- static list resolver
\* const StaticScheme = "static"
StaticScheme == "static"

\* Characters of an endpoint: two host characters, the space and the comma.
Chars == {"a", "b", " ", ","}
Endpoints == UNION {[1..n -> Chars] : n \in 0..MaxLen}

IsSpace(ch) == ch = " "

\* strings.Index(s, ","): the first comma's position, 0 when there is none.
IndexComma(s) ==
    IF \E i \in 1..Len(s) : s[i] = ","
      THEN CHOOSE i \in 1..Len(s) :
               /\ s[i] = ","
               /\ \A j \in 1..(i - 1) : s[j] # ","
      ELSE 0

\* strings.Split(s, ","): cut at every comma; a string without a comma, the
\* empty one included, gives one piece.
RECURSIVE Split(_)
Split(s) ==
    LET i == IndexComma(s)
    IN  IF i = 0
          THEN <<s>>
          ELSE <<SubSeq(s, 1, i - 1)>> \o Split(SubSeq(s, i + 1, Len(s)))

RECURSIVE TrimLeft(_)
TrimLeft(s) ==
    IF s # <<>> /\ IsSpace(Head(s)) THEN TrimLeft(Tail(s)) ELSE s

RECURSIVE TrimRight(_)
TrimRight(s) ==
    IF s # <<>> /\ IsSpace(s[Len(s)])
      THEN TrimRight(SubSeq(s, 1, Len(s) - 1))
      ELSE s

\* An entry used as it stands.
NoTrim(s) == s

\* strings.TrimSpace(h)
TrimSpace(s) == TrimRight(TrimLeft(s))

\* A collection that skips an address it already holds.
RECURSIVE CollectUnique(_, _)
CollectUnique(hosts, addrs) ==
    IF hosts = <<>>
      THEN addrs
      ELSE LET h == TrimSpace(Head(hosts))
           IN  IF h = <<>> \/ \E k \in 1..Len(addrs) : addrs[k] = h
                 THEN CollectUnique(Tail(hosts), addrs)
                 ELSE CollectUnique(Tail(hosts), Append(addrs, h))

\* Build, lines 33-40: the loop over hosts, appending every entry that is
\* non-empty after trimming.
RECURSIVE CollectAddrs(_, _)
CollectAddrs(hosts, addrs) ==
    IF hosts = <<>>
      THEN addrs
      ELSE LET h == TrimSpace(Head(hosts))
           IN  IF h = <<>>
                 THEN CollectAddrs(Tail(hosts), addrs)
                 ELSE CollectAddrs(Tail(hosts), Append(addrs, h))

\* ---------------------------------------------------------- service config
\* A service name is a Go string, modelled as a sequence of elements: "s" is
\* a run of ordinary characters, "<" a character json.Marshal escapes for
\* HTML, the double quote and the backslash are the characters JSON escapes
\* in a string, and "xFF" is a byte that is not valid UTF-8.
NameChars == {"s", "<", "\"", "\\", "xFF"}
ServiceNames == UNION {[1..n -> NameChars] : n \in 0..MaxNameLen}

\* The name NewClientConn passes, "sharding.v1.ShardingService": ordinary
\* characters only.
ShardingServiceChars == <<"sharding", ".", "v1", ".", "ShardingService">>

\* What json.Marshal writes for one character of a string: a backslash
\* escape for the quote and the backslash, \u003c for "<", \ufffd (the
\* replacement rune) for an invalid byte, the character itself otherwise.
\* An escape is the backslash followed by one element naming it.
QuoteChar(c) ==
    CASE c = "\"" -> <<"\\", "\"">>
      [] c = "\\" -> <<"\\", "\\">>
      [] c = "<" -> <<"\\", "u003c">>
      [] c = "xFF" -> <<"\\", "ufffd">>
      [] OTHER -> <<c>>

\* A string written between quotes as it is, with no escaping.
JSONQuoteRaw(str) == str

\* The body of the JSON string literal json.Marshal writes for a Go string.
RECURSIVE JSONQuote(_)
JSONQuote(str) ==
    IF str = <<>> THEN <<>> ELSE QuoteChar(Head(str)) \o JSONQuote(Tail(str))

EmptyObject == [k \in {} |-> "none"]

\* json.Marshal of a map of maps, slices and strings cannot fail.
MarshalFails(config) == FALSE

\* DefaultServiceConfig(serviceName): the JSON document, as its tree of
\* objects (records) and arrays (sequences) with every string in its written
\* form; the round_robin-only document if json.Marshal failed.
DefaultServiceConfig(serviceName) ==
    LET config == [loadBalancingConfig |-> <<[round_robin |-> EmptyObject]>>,
                   healthCheckConfig |-> [serviceName |-> serviceName]]
    IN  IF MarshalFails(config)
          THEN [loadBalancingConfig |-> <<[round_robin |-> EmptyObject]>>]
          ELSE [loadBalancingConfig |-> config.loadBalancingConfig,
                healthCheckConfig |->
                    [serviceName |-> JSONQuote(config.healthCheckConfig.serviceName)]]

\* DialOptions(serviceName); sizes in bytes, times in seconds.
DialOptions(serviceName) ==
    [transportCredentials |-> "insecure",
     defaultServiceConfig |-> DefaultServiceConfig(serviceName),
     maxCallRecvMsgSize |-> 16 * 1024 * 1024,
     maxCallSendMsgSize |-> 16 * 1024 * 1024,
     keepaliveTime |-> 30,
     keepaliveTimeout |-> 10,
     permitWithoutStream |-> TRUE]

\* A call DefaultServiceConfig(cfgName).
CallDefaultServiceConfig ==
    /\ cfgDoc = NoDoc
    /\ cfgDoc' = DefaultServiceConfig(cfgName)
    /\ UNCHANGED cfgName
    /\ UNCHANGED <<lbvars, hvars, kvars, tvars, wvars, ivars>>

\* RegisterResolvers: resolver.Register(&staticResolverBuilder{})
RegisterResolvers ==
    /\ registry' = Register(registry, StaticScheme, "staticResolverBuilder")
    /\ UNCHANGED <<pvars, svars, conn, xvars>>

\* NewClientConn(target) for a target of the given scheme: registers the
\* resolvers, then grpc.NewClient with the dial options for the sharding
\* service, whose error (decided inside grpc) is
\* returned with a nil connection. NewClientConn itself looks at no scheme;
\* grpc.NewClient takes the builder registered for the target's scheme and,
\* when there is none, the default scheme's builder with the whole target as
\* endpoint. The builder recorded is the one that will build the resolver.
NewClientConn(scheme, dialErr) ==
    /\ conn = NoConn
    /\ registry' = Register(registry, StaticScheme, "staticResolverBuilder")
    /\ conn' = [scheme |-> scheme,
                builder |-> IF Get(registry', scheme) = "none"
                              THEN Get(registry', DefaultScheme)
                              ELSE Get(registry', scheme),
                handle |-> IF dialErr THEN "nil" ELSE "conn",
                err |-> IF dialErr THEN "grpc dial" ELSE "nil",
                opts |-> DialOptions(ShardingServiceChars)]
    /\ UNCHANGED <<pvars, svars, xvars>>

\* staticResolverBuilder.Build(target, cc, opts), called by grpc for a target
\* whose scheme maps to the static builder. ccErr: cc.UpdateState returned an
\* error.
StaticBuild(ccErr) ==
    /\ conn.builder = "staticResolverBuilder"
    /\ sErr = "unbuilt"
    /\ IF endpoint = <<>>
         THEN /\ sErr' = "empty endpoint"
              /\ UNCHANGED <<sResolver, published>>
         ELSE LET addrs == CollectAddrs(Split(endpoint), <<>>)
              IN  IF Len(addrs) = 0
                    THEN /\ sErr' = "no valid addresses"
                         /\ UNCHANGED <<sResolver, published>>
                    ELSE /\ published' = Append(published, addrs)
                         /\ IF ccErr
                              THEN /\ sErr' = "update state"
                                   /\ UNCHANGED sResolver
                              ELSE /\ sErr' = "nil"
                                   /\ sResolver' = "staticResolver"
    /\ UNCHANGED <<endpoint, sCalls>>
    /\ UNCHANGED <<registry, pvars, conn, xvars>>

\* A ResolveNow that resolves again and publishes the list a second time.
StaticResolveNowRepublish ==
    /\ sResolver = "staticResolver"
    /\ Len(sCalls) < MaxStaticOps
    /\ sCalls' = Append(sCalls, "ResolveNow")
    /\ published' = Append(published, CollectAddrs(Split(endpoint), <<>>))
    /\ UNCHANGED <<endpoint, sResolver, sErr>>
    /\ UNCHANGED <<registry, pvars, conn, xvars>>

\* staticResolver.ResolveNow: empty body.
StaticResolveNow ==
    /\ sResolver = "staticResolver"
    /\ Len(sCalls) < MaxStaticOps
    /\ sCalls' = Append(sCalls, "ResolveNow")
    /\ UNCHANGED <<endpoint, sResolver, sErr, published>>
    /\ UNCHANGED <<registry, pvars, conn, xvars>>

\* staticResolver.Close: empty body.
StaticClose ==
    /\ sResolver = "staticResolver"
    /\ Len(sCalls) < MaxStaticOps
    /\ sCalls' = Append(sCalls, "Close")
    /\ UNCHANGED <<endpoint, sResolver, sErr, published>>
    /\ UNCHANGED <<registry, pvars, conn, xvars>>

\* ------------------------------------------------ specification SpecStatic
InitStatic ==
    /\ registry = RegistryInit
    /\ PInit
    /\ endpoint \in Endpoints
    /\ SInit
    /\ conn = NoConn
    /\ XInit

NextStatic ==
    \/ RegisterResolvers
    \/ \E scheme \in Schemes, dialErr \in BOOLEAN : NewClientConn(scheme, dialErr)
    \/ \E ccErr \in BOOLEAN : StaticBuild(ccErr)
    \/ StaticResolveNow
    \/ StaticClose

SpecStatic == InitStatic /\ [][NextStatic]_vars

\* ------------------------------------------------- health server, actions
\* healthServer.SetServingStatus(name, status) on a status map.
SetServingStatus(m, name, status) == [m EXCEPT ![name] = status]

\* A registration that sets only the overall server's status.
RegisterHealthServerOverallOnly ==
    /\ ~hRegistered
    /\ \E fresh \in [HealthNames -> ServingStatuses \cup {"absent"}] :
          hStatus' = SetServingStatus(fresh, "", "SERVING")
    /\ hRegistered' = TRUE
    /\ hSets' = 0
    /\ UNCHANGED <<lbvars, cvars, kvars, tvars, wvars, ivars>>

\* RegisterHealthServer(server): a new health server (holding whatever
\* health.NewServer puts in it), the overall status and the sharding
\* service's status set to SERVING, the service registered on the server.
RegisterHealthServer ==
    /\ ~hRegistered
    /\ \E fresh \in [HealthNames -> ServingStatuses \cup {"absent"}] :
          hStatus' = SetServingStatus(SetServingStatus(fresh, "", "SERVING"),
                                      ShardingServiceName, "SERVING")
    /\ hRegistered' = TRUE
    /\ hSets' = 0
    /\ UNCHANGED <<lbvars, cvars, kvars, tvars, wvars, ivars>>

\* A later SetServingStatus(name, status) by the holder of the server that
\* RegisterHealthServer returned.
HealthSet(name, status) ==
    /\ hRegistered
    /\ hSets < MaxHealthSets
    /\ hStatus' = SetServingStatus(hStatus, name, status)
    /\ hSets' = hSets + 1
    /\ UNCHANGED hRegistered
    /\ UNCHANGED <<lbvars, cvars, kvars, tvars, wvars, ivars>>

\* ----------------------------------------------- specification SpecService
InitService ==
    /\ registry = RegistryInit
    /\ PInit
    /\ endpoint = <<>>
    /\ SInit
    /\ conn = NoConn
    /\ XInit

NextService ==
    \/ RegisterHealthServer
    \/ \E name \in HealthNames, status \in ServingStatuses : HealthSet(name, status)

SpecService == InitService /\ [][NextService]_vars

\* ------------------------------------------------ specification SpecConfig
\* DefaultServiceConfig on every service name up to MaxNameLen characters,
\* and NewClientConn.
InitConfig ==
    /\ registry = RegistryInit
    /\ PInit
    /\ endpoint = <<>>
    /\ SInit
    /\ conn = NoConn
    /\ HInit
    /\ cfgName \in ServiceNames
    /\ cfgDoc = NoDoc
    /\ KInit
    /\ TInit
    /\ WInit
    /\ IInit

NextConfig ==
    \/ CallDefaultServiceConfig
    \/ \E scheme \in Schemes, dialErr \in BOOLEAN : NewClientConn(scheme, dialErr)

SpecConfig == InitConfig /\ [][NextConfig]_vars

\* ------------------------------------------------------------ cluster setup
\* The cluster config.Load returns: members by their Addr().
ConfigRS == [name |-> "configrs",
             members |-> <<"cfg-1:27019", "cfg-2:27020", "cfg-3:27021">>]
Shards ==
    <<[name |-> "shard1rs",
       members |-> <<"shard1-1:27022", "shard1-2:27023", "shard1-3:27024">>],
      [name |-> "shard2rs",
       members |-> <<"shard2-1:27025", "shard2-2:27026", "shard2-3:27027">>],
      [name |-> "shard3rs",
       members |-> <<"shard3-1:27028", "shard3-2:27029", "shard3-3:27030">>]>>
MongosHosts == <<"localhost:27017", "localhost:27018">>

\* One call of the setup program. fatal: a non-nil error ends the process
\* (must, or log.Fatalf); otherwise the error is only logged as a warning
\* and the enclosing function returns, passing over its next skip calls.
\* The calls that act on a replica set carry its name as arg, the others the
\* host they talk to.
Call(op, arg) == [op |-> op, arg |-> arg, fatal |-> TRUE, skip |-> 0]
Warn(op, arg, skip) == [op |-> op, arg |-> arg, fatal |-> FALSE, skip |-> skip]

RECURSIVE Flatten(_)
Flatten(seqs) == IF seqs = <<>> THEN <<>> ELSE Head(seqs) \o Flatten(Tail(seqs))

WaitForAllNodesCalls ==
    [i \in 1..Len(ConfigRS.members) |-> Call("WaitForHost", ConfigRS.members[i])]
    \o Flatten([s \in 1..Len(Shards) |->
                  [i \in 1..Len(Shards[s].members) |->
                      Call("WaitForHost", Shards[s].members[i])]])

InitAllReplicaSetsCalls ==
    <<Call("InitReplicaSet", ConfigRS.name), Call("WaitForPrimary", ConfigRS.name)>>
    \o Flatten([s \in 1..Len(Shards) |->
                  <<Call("InitReplicaSet", Shards[s].name),
                    Call("WaitForPrimary", Shards[s].name)>>])

CreateAdminUsersCalls ==
    <<Call("CreateAdminUser", ConfigRS.name)>>
    \o [s \in 1..Len(Shards) |-> Call("CreateAdminUser", Shards[s].name)]

ConnectToMongosCalls ==
    [i \in 1..Len(MongosHosts) |-> Call("WaitForHost", MongosHosts[i])]
    \o <<Call("ConnectMongos", MongosHosts[1])>>

RegisterShardsCalls ==
    [s \in 1..Len(Shards) |-> Call("AddShard", Shards[s].name)]

EnableDatabaseShardingCalls == <<Call("EnableSharding", MongosHosts[1])>>

CreateRBACUsersCalls ==
    <<Call("CreateAppUser", MongosHosts[1]), Call("CreateReadOnlyUser", MongosHosts[1])>>

VerifyClusterCalls ==
    <<Call("VerifyCluster", MongosHosts[1]), Warn("GetClusterStatus", MongosHosts[1], 0)>>

VerifyRBACCalls ==
    <<Warn("VerifyAppUser", MongosHosts[1], 0),
      Warn("VerifyReadOnlyUser", MongosHosts[1], 0)>>

VerifyMongosFailoverCalls ==
    <<Warn("ConnectMongosMulti", "all mongos", 1), Warn("VerifyCluster", "all mongos", 0)>>

\* main: the calls in program order.
SetupProgram ==
    WaitForAllNodesCalls \o InitAllReplicaSetsCalls \o CreateAdminUsersCalls
    \o ConnectToMongosCalls \o RegisterShardsCalls \o EnableDatabaseShardingCalls
    \o CreateRBACUsersCalls \o VerifyClusterCalls \o VerifyRBACCalls
    \o VerifyMongosFailoverCalls

\* A must that logs the error and lets main go on.
MustLogsOnly(ok) == FALSE

\* must(err, msg) and the log.Fatalf of connectToMongos: whether the process
\* ends here.
Must(ok) == ~ok

\* main makes its next call, which succeeds or returns an error.
SetupCall(ok) ==
    /\ kStatus = "running"
    /\ kPc <= Len(SetupProgram)
    /\ LET call == SetupProgram[kPc]
       IN  /\ kLog' = Append(kLog, [op |-> call.op, arg |-> call.arg, ok |-> ok])
           /\ IF call.fatal /\ Must(ok)
                 THEN /\ kStatus' = "exit 1"
                      /\ UNCHANGED kPc
                 ELSE /\ kPc' = IF ok THEN kPc + 1 ELSE kPc + 1 + call.skip
                      /\ UNCHANGED kStatus
    /\ UNCHANGED <<lbvars, hvars, cvars, tvars, wvars, ivars>>

\* printConnectionInfo and os.Exit(0).
SetupExit ==
    /\ kStatus = "running"
    /\ kPc > Len(SetupProgram)
    /\ kStatus' = "exit 0"
    /\ UNCHANGED <<kPc, kLog>>
    /\ UNCHANGED <<lbvars, hvars, cvars, tvars, wvars, ivars>>

\* ------------------------------------------------- specification SpecSetup
InitSetup ==
    /\ registry = RegistryInit
    /\ PInit
    /\ endpoint = <<>>
    /\ SInit
    /\ conn = NoConn
    /\ XInit

NextSetup ==
    \/ \E ok \in BOOLEAN : SetupCall(ok)
    \/ SetupExit

SpecSetup == InitSetup /\ [][NextSetup]_vars

\* ------------------------------------------------------------------ HA labs
\* attempt < 5 of the post-failover insert loop.
PostInsertAttempts == 5

\* RunShardFailoverTest: the members of shard1rs and their containers; a
\* member name outside the map gives the empty container name.
ShardMembers == <<"shard1-1:27022", "shard1-2:27023", "shard1-3:27024">>
ContainerMap(addr) ==
    CASE addr = "shard1-1:27022" -> "shard1-1"
      [] addr = "shard1-2:27023" -> "shard1-2"
      [] addr = "shard1-3:27024" -> "shard1-3"
      [] OTHER -> ""

\* The names FindPrimary can return: the "name" of the PRIMARY in a member's
\* replSetGetStatus reply, which need not be one of the addresses asked.
PrimaryNames == {ShardMembers[i] : i \in 1..Len(ShardMembers)} \cup {"shard1-4:27031"}

\* RunConfigServerOutageTest: the config servers it stops.
ConfigServers == <<"cfg-2", "cfg-3">>

\* StopContainer(name) returned nil: the test has stopped the container.
Stop(name) ==
    /\ tStopped' = tStopped \cup {name}
    /\ tStartIssued' = tStartIssued \ {name}

\* StartContainer called for every container of names; its error, if any,
\* is at most logged.
Start(names) ==
    /\ tStartIssued' = tStartIssued \cup names
    /\ UNCHANGED tStopped

\* return err (or nil) of the running test.
Return(result) ==
    /\ tPc' = "return"
    /\ tResult' = result

\* FindPrimary: an error, or the name of the PRIMARY.
ShardFindPrimary(found, name) ==
    /\ tTest = "shard"
    /\ tPc = "find"
    /\ IF found
         THEN /\ tPrimary' = ContainerMap(name)
              /\ tPc' = "preInsert"
              /\ UNCHANGED tResult
         ELSE /\ Return("find primary")
              /\ UNCHANGED tPrimary
    /\ UNCHANGED <<tTest, tIdx, tAttempt, tStopped, tStartIssued>>
    /\ UNCHANGED <<lbvars, hvars, cvars, kvars, wvars, ivars>>

\* The pre-failover InsertMany.
ShardPreInsert(ok) ==
    /\ tTest = "shard"
    /\ tPc = "preInsert"
    /\ IF ok
         THEN /\ tPc' = "stop"
              /\ UNCHANGED tResult
         ELSE Return("pre-failover insert")
    /\ UNCHANGED <<tTest, tPrimary, tIdx, tAttempt, tStopped, tStartIssued>>
    /\ UNCHANGED <<lbvars, hvars, cvars, kvars, wvars, ivars>>

\* StopContainer(primaryContainer); on error the test returns at once.
ShardStop(ok) ==
    /\ tTest = "shard"
    /\ tPc = "stop"
    /\ IF ok
         THEN /\ Stop(tPrimary)
              /\ tPc' = "election"
              /\ UNCHANGED tResult
         ELSE /\ Return("stop")
              /\ UNCHANGED <<tStopped, tStartIssued>>
    /\ UNCHANGED <<tTest, tPrimary, tIdx, tAttempt>>
    /\ UNCHANGED <<lbvars, hvars, cvars, kvars, wvars, ivars>>

\* An election timeout that returns without restarting the container.
ShardElectionNoRestart(ok) ==
    /\ tTest = "shard"
    /\ tPc = "election"
    /\ IF ok
         THEN /\ tPc' = "postInsert"
              /\ tAttempt' = 0
              /\ UNCHANGED <<tResult, tStopped, tStartIssued>>
         ELSE /\ Return("election timeout")
              /\ UNCHANGED <<tAttempt, tStopped, tStartIssued>>
    /\ UNCHANGED <<tTest, tPrimary, tIdx>>
    /\ UNCHANGED <<lbvars, hvars, cvars, kvars, wvars, ivars>>

\* WaitForNewPrimary; on error the container is started again and the test
\* returns.
ShardElection(ok) ==
    /\ tTest = "shard"
    /\ tPc = "election"
    /\ IF ok
         THEN /\ tPc' = "postInsert"
              /\ tAttempt' = 0
              /\ UNCHANGED <<tResult, tStopped, tStartIssued>>
         ELSE /\ Start({tPrimary})
              /\ Return("election timeout")
              /\ UNCHANGED tAttempt
    /\ UNCHANGED <<tTest, tPrimary, tIdx>>
    /\ UNCHANGED <<lbvars, hvars, cvars, kvars, wvars, ivars>>

\* One attempt of the post-failover InsertMany; after the last failed one
\* the container is started again and the test returns.
ShardPostInsert(ok) ==
    /\ tTest = "shard"
    /\ tPc = "postInsert"
    /\ tAttempt < PostInsertAttempts
    /\ IF ok
         THEN /\ tPc' = "restart"
              /\ UNCHANGED <<tAttempt, tResult, tStopped, tStartIssued>>
         ELSE /\ tAttempt' = tAttempt + 1
              /\ IF tAttempt' < PostInsertAttempts
                   THEN UNCHANGED <<tPc, tResult, tStopped, tStartIssued>>
                   ELSE /\ Start({tPrimary})
                        /\ Return("post-failover insert failed")
    /\ UNCHANGED <<tTest, tPrimary, tIdx>>
    /\ UNCHANGED <<lbvars, hvars, cvars, kvars, wvars, ivars>>

\* The counts, then StartContainer(primaryContainer), whose error is only
\* logged, and return nil.
ShardRestart(startOk) ==
    /\ tTest = "shard"
    /\ tPc = "restart"
    /\ Start({tPrimary})
    /\ Return("nil")
    /\ UNCHANGED <<tTest, tPrimary, tIdx, tAttempt>>
    /\ UNCHANGED <<lbvars, hvars, cvars, kvars, wvars, ivars>>

\* runLab logs the test's error, if any, and main goes on to the next lab.
NextLab ==
    /\ tPc = "return"
    /\ tTest \in {"shard", "config"}
    /\ IF tTest = "shard"
         THEN /\ tTest' = "config"
              /\ tPc' = "ping"
         ELSE /\ tTest' = "done"
              /\ tPc' = "exit"
    /\ tIdx' = 1
    /\ tAttempt' = 0
    /\ tStopped' = {}
    /\ tStartIssued' = {}
    /\ tResult' = "none"
    /\ UNCHANGED tPrimary
    /\ UNCHANGED <<lbvars, hvars, cvars, kvars, wvars, ivars>>

\* The Ping before the outage.
ConfigPing(ok) ==
    /\ tTest = "config"
    /\ tPc = "ping"
    /\ IF ok
         THEN /\ tPc' = "baseline"
              /\ UNCHANGED tResult
         ELSE Return("cluster not healthy")
    /\ UNCHANGED <<tTest, tPrimary, tIdx, tAttempt, tStopped, tStartIssued>>
    /\ UNCHANGED <<lbvars, hvars, cvars, kvars, wvars, ivars>>

\* The baseline InsertMany.
ConfigBaseline(ok) ==
    /\ tTest = "config"
    /\ tPc = "baseline"
    /\ IF ok
         THEN /\ tPc' = "stop"
              /\ UNCHANGED tResult
         ELSE Return("baseline insert")
    /\ UNCHANGED <<tTest, tPrimary, tIdx, tAttempt, tStopped, tStartIssued>>
    /\ UNCHANGED <<lbvars, hvars, cvars, kvars, wvars, ivars>>

\* One round of the stop loop: StopContainer(cs); on error StartContainer
\* for every config server of the list, and the test returns.
ConfigStop(ok) ==
    /\ tTest = "config"
    /\ tPc = "stop"
    /\ tIdx <= Len(ConfigServers)
    /\ IF ok
         THEN /\ Stop(ConfigServers[tIdx])
              /\ tIdx' = IF tIdx < Len(ConfigServers) THEN tIdx + 1 ELSE 1
              /\ tPc' = IF tIdx < Len(ConfigServers) THEN "stop" ELSE "probe"
              /\ UNCHANGED tResult
         ELSE /\ Start({ConfigServers[i] : i \in 1..Len(ConfigServers)})
              /\ Return("stop")
              /\ UNCHANGED tIdx
    /\ UNCHANGED <<tTest, tPrimary, tAttempt>>
    /\ UNCHANGED <<lbvars, hvars, cvars, kvars, wvars, ivars>>

\* The read, the write and the metadata operation during the outage: each
\* result is only logged.
ConfigProbe(readOk, writeOk, metaOk) ==
    /\ tTest = "config"
    /\ tPc = "probe"
    /\ tPc' = "restore"
    /\ UNCHANGED <<tTest, tPrimary, tIdx, tAttempt, tStopped, tStartIssued, tResult>>
    /\ UNCHANGED <<lbvars, hvars, cvars, kvars, wvars, ivars>>

\* One round of the restore loop: StartContainer(cs), its error only logged.
ConfigRestore(startOk) ==
    /\ tTest = "config"
    /\ tPc = "restore"
    /\ tIdx <= Len(ConfigServers)
    /\ Start({ConfigServers[tIdx]})
    /\ tIdx' = IF tIdx < Len(ConfigServers) THEN tIdx + 1 ELSE 1
    /\ tPc' = IF tIdx < Len(ConfigServers) THEN "restore" ELSE "recovery"
    /\ UNCHANGED <<tTest, tPrimary, tAttempt, tResult>>
    /\ UNCHANGED <<lbvars, hvars, cvars, kvars, wvars, ivars>>

\* The recovery pings and the count, results only logged, and return nil.
ConfigRecovery(pingOk) ==
    /\ tTest = "config"
    /\ tPc = "recovery"
    /\ Return("nil")
    /\ UNCHANGED <<tTest, tPrimary, tIdx, tAttempt, tStopped, tStartIssued>>
    /\ UNCHANGED <<lbvars, hvars, cvars, kvars, wvars, ivars>>

\* ---------------------------------------------------- specification SpecHA
InitHA ==
    /\ registry = RegistryInit
    /\ PInit
    /\ endpoint = <<>>
    /\ SInit
    /\ conn = NoConn
    /\ XInit

NextHA ==
    \/ \E found \in BOOLEAN, name \in PrimaryNames : ShardFindPrimary(found, name)
    \/ \E ok \in BOOLEAN : ShardPreInsert(ok)
    \/ \E ok \in BOOLEAN : ShardStop(ok)
    \/ \E ok \in BOOLEAN : ShardElection(ok)
    \/ \E ok \in BOOLEAN : ShardPostInsert(ok)
    \/ \E startOk \in BOOLEAN : ShardRestart(startOk)
    \/ NextLab
    \/ \E ok \in BOOLEAN : ConfigPing(ok)
    \/ \E ok \in BOOLEAN : ConfigBaseline(ok)
    \/ \E ok \in BOOLEAN : ConfigStop(ok)
    \/ \E readOk, writeOk, metaOk \in BOOLEAN : ConfigProbe(readOk, writeOk, metaOk)
    \/ \E startOk \in BOOLEAN : ConfigRestore(startOk)
    \/ \E pingOk \in BOOLEAN : ConfigRecovery(pingOk)

SpecHA == InitHA /\ [][NextHA]_vars

\* ------------------------------------------------------------ polling waits
\* WaitForHost and WaitForPrimary (package cluster), WaitForNewPrimary
\* (package ha): probe, wait two seconds or for the context, until the
\* deadline.
WaitFns == {"WaitForHost", "WaitForPrimary", "WaitForNewPrimary"}

WaitTimeouts == 0..MaxWaitTimeout

\* time.After(2 * time.Second) between two probes.
PollInterval == 2

\* SetTimeout of the client a probe uses: the longest a probe takes.
ProbeTimeout(fn) == IF fn = "WaitForPrimary" THEN 10 ELSE 5

ProbeDurations(fn) == {0, ProbeTimeout(fn)}

\* What one probe can observe.  WaitForHost: mongo.Connect failed, the ping
\* failed, the ping succeeded.  WaitForPrimary (hasPrimary): the command
\* failed, no member is PRIMARY, a member is PRIMARY.  WaitForNewPrimary,
\* per member asked: mongo.Connect failed, the command failed, no member is
\* PRIMARY, the only PRIMARY is oldPrimary, a PRIMARY other than oldPrimary.
ProbeOutcomes(fn) ==
    CASE fn = "WaitForHost" -> {"connect-error", "ping-error", "ping-ok"}
      [] fn = "WaitForPrimary" -> {"command-error", "no-primary", "primary"}
      [] fn = "WaitForNewPrimary" ->
            {"connect-error", "command-error", "no-primary", "old-primary",
             "new-primary"}
      [] OTHER -> {}

\* As ProbeSucceeds, without the comparison of the name with oldPrimary.
ProbeSucceedsAnyPrimary(fn, outcome) ==
    \/ fn = "WaitForHost" /\ outcome = "ping-ok"
    \/ fn = "WaitForPrimary" /\ outcome = "primary"
    \/ fn = "WaitForNewPrimary" /\ outcome \in {"old-primary", "new-primary"}

\* The probe makes the wait return its success.
ProbeSucceeds(fn, outcome) ==
    \/ fn = "WaitForHost" /\ outcome = "ping-ok"
    \/ fn = "WaitForPrimary" /\ outcome = "primary"
    \/ fn = "WaitForNewPrimary" /\ outcome = "new-primary"

WaitReturn(result) ==
    /\ wPc' = "done"
    /\ wResult' = result

\* The call, up to the computation of the deadline.  WaitForPrimary connects
\* once, first, and returns the error of mongo.Connect.
WaitStart(fn, members, timeout, connectErr) ==
    /\ wPc = "none"
    /\ wFn' = fn
    /\ wMembers' = IF fn = "WaitForNewPrimary" THEN members ELSE 1
    /\ IF fn = "WaitForPrimary" /\ connectErr
         THEN /\ WaitReturn("connect-error")
              /\ UNCHANGED wDeadline
         ELSE /\ wDeadline' = wNow + timeout
              /\ wPc' = "check"
              /\ UNCHANGED wResult
    /\ UNCHANGED <<wNow, wMember, wLast, wCtx>>
    /\ UNCHANGED <<lbvars, hvars, cvars, kvars, tvars, ivars>>

\* for time.Now().Before(deadline), and the return after the loop.
WaitCheck ==
    /\ wPc = "check"
    /\ IF wNow < wDeadline
         THEN /\ wPc' = IF wMembers = 0 THEN "sleep" ELSE "probe"
              /\ wMember' = 1
              /\ UNCHANGED wResult
         ELSE /\ WaitReturn("timeout")
              /\ UNCHANGED wMember
    /\ UNCHANGED <<wFn, wMembers, wNow, wDeadline, wLast, wCtx>>
    /\ UNCHANGED <<lbvars, hvars, cvars, kvars, tvars, ivars>>

\* One probe, taking d seconds: of the host, or of member wMember.
WaitProbe(outcome, d) ==
    /\ wPc = "probe"
    /\ outcome \in ProbeOutcomes(wFn)
    /\ d \in ProbeDurations(wFn)
    /\ wNow' = wNow + d
    /\ wLast' = outcome
    /\ IF ProbeSucceeds(wFn, outcome)
         THEN /\ WaitReturn("ok")
              /\ UNCHANGED wMember
         ELSE /\ UNCHANGED wResult
              /\ IF wMember < wMembers
                   THEN /\ wMember' = wMember + 1
                        /\ UNCHANGED wPc
                   ELSE /\ wPc' = "sleep"
                        /\ UNCHANGED wMember
    /\ UNCHANGED <<wFn, wMembers, wDeadline, wCtx>>
    /\ UNCHANGED <<lbvars, hvars, cvars, kvars, tvars, ivars>>

\* select, case <-ctx.Done().
WaitSleepCtx ==
    /\ wPc \in {"sleep", "race"}
    /\ wCtx
    /\ WaitReturn("ctx")
    /\ UNCHANGED <<wFn, wMembers, wNow, wDeadline, wMember, wLast, wCtx>>
    /\ UNCHANGED <<lbvars, hvars, cvars, kvars, tvars, ivars>>

\* select, case <-time.After(2 * time.Second): the context is not done when
\* the timer fires, or becomes done at that moment (both cases ready, select
\* takes either).
WaitSleepTimer ==
    /\ (wPc = "sleep" /\ ~wCtx) \/ wPc = "race"
    /\ wNow' = wNow + PollInterval
    /\ wPc' = "check"
    /\ UNCHANGED <<wFn, wMembers, wDeadline, wMember, wLast, wResult, wCtx>>
    /\ UNCHANGED <<lbvars, hvars, cvars, kvars, tvars, ivars>>

\* The caller's context is cancelled, before or during the wait; atTimer:
\* during the select, at the moment its timer fires.
CtxCancel(atTimer) ==
    /\ wPc # "done"
    /\ ~wCtx
    /\ wCtx' = TRUE
    /\ atTimer => wPc = "sleep"
    /\ wPc' = IF atTimer THEN "race" ELSE wPc
    /\ UNCHANGED <<wFn, wMembers, wNow, wDeadline, wMember, wLast, wResult>>
    /\ UNCHANGED <<lbvars, hvars, cvars, kvars, tvars, ivars>>

\* ---------------------------------------------------- specification SpecWait
InitWait ==
    /\ registry = RegistryInit
    /\ PInit
    /\ endpoint = <<>>
    /\ SInit
    /\ conn = NoConn
    /\ XInit

NextWait ==
    \/ \E fn \in WaitFns, members \in 0..MaxMembers, timeout \in WaitTimeouts,
          connectErr \in BOOLEAN : WaitStart(fn, members, timeout, connectErr)
    \/ WaitCheck
    \/ \E outcome \in ProbeOutcomes(wFn), d \in ProbeDurations(wFn) :
          WaitProbe(outcome, d)
    \/ WaitSleepCtx
    \/ WaitSleepTimer
    \/ \E atTimer \in BOOLEAN : CtxCancel(atTimer)

\* The goroutine running the wait is scheduled; a probe returns within the
\* timeout of its client, the timer of time.After fires.
WaitFairness ==
    /\ WF_vars(WaitCheck)
    /\ WF_vars(\E outcome \in ProbeOutcomes(wFn), d \in ProbeDurations(wFn) :
                  WaitProbe(outcome, d))
    /\ WF_vars(WaitSleepCtx)
    /\ WF_vars(WaitSleepTimer)

SpecWait == InitWait /\ [][NextWait]_vars /\ WaitFairness

\* ------------------------------------------------- cluster initialisation
\* InitReplicaSet, AddShard, CreateAdminUser (package cluster), CreateAppUser
\* and CreateReadOnlyUser (package security): one command sent to the
\* server, its error classified by the text of the error.
InitOps == {"InitReplicaSet", "AddShard", "CreateAdminUser", "CreateAppUser",
            "CreateReadOnlyUser"}

\* The text of an error is a sequence of words; a substring is a run of
\* consecutive words.
ErrorWords == {"already", "initialized", "exists", "AlreadyInitialized",
               "UserAlreadyExists", "51003", "E11000", "member"}

ErrorTexts == UNION {[1..n -> ErrorWords] : n \in 0..MaxWords}

\* strings.Contains(s, sub)
Contains(s, sub) ==
    \E i \in 1..(Len(s) - Len(sub) + 1) : SubSeq(s, i, i + Len(sub) - 1) = sub

\* containsAny(s, subs...), and isUserExists on the text of the error
ContainsAny(s, subs) == \E sub \in subs : Contains(s, sub)

\* The substrings each operation looks for in the error.
DoneMarkers(op) ==
    CASE op = "InitReplicaSet" ->
            {<<"already", "initialized">>, <<"AlreadyInitialized">>}
      [] op = "AddShard" -> {<<"already">>, <<"E11000">>}
      [] OTHER -> {<<"already", "exists">>, <<"UserAlreadyExists">>, <<"51003">>}

\* The operations that connect with mongo.Connect themselves; the others are
\* given a connected client.
Connects(op) == op \in {"InitReplicaSet", "CreateAdminUser"}

\* The markers that name one condition: the code names and the two-word
\* phrases.  The bare word "already" names none.
SpecificMarkers == (UNION {DoneMarkers(op) : op \in InitOps}) \ {<<"already">>}

\* What happens to the command of an operation: mongo.Connect fails
\* ("connect"), the server accepts the command ("ok"), the server refuses it
\* because an earlier run did the same ("done", its text carries one of the
\* markers of the operation), the server or the driver fails for any other
\* reason ("other", a text that carries no marker naming a done condition).
Replies(op) ==
    {[kind |-> "ok", text |-> <<>>]}
    \cup (IF Connects(op) THEN {[kind |-> "connect", text |-> <<>>]} ELSE {})
    \cup {[kind |-> "done", text |-> t] :
            t \in {x \in ErrorTexts : ContainsAny(x, DoneMarkers(op))}}
    \cup {[kind |-> "other", text |-> t] :
            t \in {x \in ErrorTexts : ~ContainsAny(x, SpecificMarkers)}}

\* The value the operation returns for a reply.
InitResult(op, reply) ==
    CASE reply.kind = "connect" -> "error"
      [] reply.kind = "ok" -> "nil"
      [] OTHER -> IF ContainsAny(reply.text, DoneMarkers(op))
                    THEN "nil"
                    ELSE "error"

\* One call of an initialisation operation.
CallInitOp(op, reply) ==
    /\ iOp = "none"
    /\ reply \in Replies(op)
    /\ iOp' = op
    /\ iReply' = reply
    /\ iResult' = InitResult(op, reply)
    /\ UNCHANGED <<lbvars, hvars, cvars, kvars, tvars, wvars>>

\* ---------------------------------------------------- specification SpecInit
InitInit ==
    /\ registry = RegistryInit
    /\ PInit
    /\ endpoint = <<>>
    /\ SInit
    /\ conn = NoConn
    /\ XInit

NextInit ==
    \E op \in InitOps : \E reply \in Replies(op) : CallInitOp(op, reply)

SpecInit == InitInit /\ [][NextInit]_vars

\* ------------------------------------------------------------------ claims

\* C1: however many Close calls are made on one PeriodicDNSResolver, one after
\* the other or at the same time, r.done is closed at most once, the inner
\* resolver is closed at most once, no call panics on a second close of the
\* channel, and once a Close has returned both have happened exactly once.
C1_CloseOnce ==
    /\ doneCloses <= 1
    /\ innerCloses <= 1
    /\ panic # "close of closed channel"
    /\ closeReturns > 0 => (doneCloses = 1 /\ innerCloses = 1 /\ doneClosed)

\* Three Close calls have returned, from two callers.
C1_Witness ==
    /\ closeReturns = MaxOps
    /\ closeCalls = MaxOps
    /\ doneCloses = 1
    /\ innerCloses = 1

\* C2 (as claimed): a ResolveNow made after a Close has returned never reaches
\* the inner resolver's ResolveNow.
C2_NoResolveAfterClose == ~manualAfterClose

\* C3 (as claimed): once a Close has returned, the refresh loop never again
\* calls the inner resolver's ResolveNow.
C3_NoTickAfterClose == ~tickAfterClose

\* The refresh goroutine is blocked in select with no tick buffered.
LoopQuiescent == loopPc = "select" /\ tickerC = 0

\* C4: while the resolver is Active (no Close started) every tick has caused
\* exactly one inner ResolveNow and nothing but ticks and manual calls causes
\* one: with the loop idle, the inner ResolveNow count is the manual calls plus
\* the ticks elapsed; with interval 30 s, no manual call and the clock at
\* 65 s, it is exactly 2.
C4_TickResolves ==
    /\ (rBuilt = "ok" /\ Alive /\ closeCalls = 0 /\ LoopQuiescent)
          => innerResolves = manualCalls + (now \div interval)
    /\ (rBuilt = "ok" /\ interval = 30 /\ now = 65 /\ closeCalls = 0
          /\ manualCalls = 0)
          => innerResolves = 2

C4_Witness ==
    /\ rBuilt = "ok"
    /\ interval = 30
    /\ now = 65
    /\ closeCalls = 0
    /\ manualCalls = 0
    /\ innerResolves = 2

\* The separators of an endpoint: its commas and the two ends.
Seps(e) == {0, Len(e) + 1} \cup {i \in 1..Len(e) : e[i] = ","}

\* The entries of a comma list: the stretches between neighbouring separators
\* that hold a character other than the space.
Kept(e) ==
    {pq \in Seps(e) \X Seps(e) :
        /\ pq[1] < pq[2]
        /\ \A m \in Seps(e) : ~(pq[1] < m /\ m < pq[2])
        /\ \E i \in (pq[1] + 1)..(pq[2] - 1) : e[i] # " "}

\* An entry without the spaces around it.
Entry(e, pq) ==
    LET solid == {i \in (pq[1] + 1)..(pq[2] - 1) : e[i] # " "}
        first == CHOOSE i \in solid : \A j \in solid : i <= j
        last == CHOOSE i \in solid : \A j \in solid : j <= i
    IN  SubSeq(e, first, last)

\* The entries in input order.
Entries(e) ==
    [k \in 1..Cardinality(Kept(e)) |->
        Entry(e, CHOOSE pq \in Kept(e) :
                     Cardinality({x \in Kept(e) : x[1] < pq[1]}) = k - 1)]

\* C5: for an endpoint with at least one non-empty trimmed entry, Build hands
\* the connection one state whose addresses are exactly the trimmed non-empty
\* entries, in input order, duplicates kept.
C5_StaticAddrs ==
    (sErr # "unbuilt" /\ Kept(endpoint) # {})
        => published = <<Entries(endpoint)>>

\* "a, ,a": a duplicate, a blank entry and a space to trim.
C5_Witness ==
    /\ sErr = "nil"
    /\ endpoint = <<"a", ",", " ", ",", "a">>
    /\ published = << << <<"a">>, <<"a">> >> >>

\* The errors the specification calls InvalidTarget.
InvalidTarget == {"empty endpoint", "no valid addresses"}

\* C6: for an endpoint that is empty, only spaces, or only commas and spaces,
\* Build fails with InvalidTarget, returns no resolver and publishes nothing.
C6_InvalidTarget ==
    (sErr # "unbuilt" /\ \A i \in 1..Len(endpoint) : endpoint[i] \in {" ", ","})
        => /\ sErr \in InvalidTarget
           /\ sResolver = "none"
           /\ published = <<>>

\* Build has failed on ",, ," and on the empty endpoint's kind of error.
C6_Witness ==
    /\ endpoint = <<",", ",", " ", ",">>
    /\ sErr = "no valid addresses"

\* C7: a static resolver that was built has published once, during Build, and
\* no step taken after that (a ResolveNow, a Close) publishes again, starts a
\* refresh goroutine or changes anything else of the program's state.
C7_StaticFrame ==
    [][sResolver = "staticResolver"
          => /\ Len(published) = 1
             /\ published' = published
             /\ sResolver' = sResolver
             /\ sErr' = sErr
             /\ endpoint' = endpoint
             /\ pvars' = pvars
             /\ registry' = registry
             /\ conn' = conn]_vars

\* Both ResolveNow and Close have been called on a built static resolver.
C7_Witness ==
    /\ sResolver = "staticResolver"
    /\ \E i, j \in 1..Len(sCalls) : sCalls[i] = "ResolveNow" /\ sCalls[j] = "Close"

\* C8 (as claimed): a connection asked for a target whose scheme has no
\* registered resolver fails with UnknownScheme: no handle is returned and no
\* resolver builder is put to work.
C8_UnknownScheme ==
    (conn # NoConn /\ Get(registry, conn.scheme) = "none")
        => /\ conn.handle = "nil"
           /\ conn.err = "UnknownScheme"
           /\ conn.builder = "none"

\* C9 (as claimed): a connection made for a dns target is built by the periodic
\* builder, one for a static target by the static builder.
C9_SchemeDispatch ==
    /\ conn.scheme = "static" => conn.builder = "staticResolverBuilder"
    /\ conn.scheme = "dns" => conn.builder = "periodicDNSBuilder"

\* C14: right after RegisterHealthServer, before any later SetServingStatus
\* call, the overall entry "" and the entry "sharding.v1.ShardingService"
\* both read SERVING.
C14_RegisteredServing ==
    (hRegistered /\ hSets = 0) =>
        /\ hStatus[""] = "SERVING"
        /\ hStatus[ShardingServiceName] = "SERVING"

C14_Witness ==
    /\ hRegistered
    /\ hSets = 0
    /\ hStatus["other.v1.Service"] = "NOT_SERVING"

\* C17 (as claimed): once a Close of the connection's resolver has returned,
\* r.done is closed, the inner resolver has been closed exactly once and the
\* refresh goroutine is no longer running.
C17_CloseReleasesRefresh ==
    closeReturns > 0 =>
        /\ doneClosed
        /\ innerCloses = 1
        /\ loopPc \notin {"start", "select", "resolve"}

\* Reading the body of a JSON string literal: it ends at the first quote that
\* is not escaped; an escape stands for the character it names.
UnescapeChar(e) ==
    CASE e = "u003c" -> "<"
      [] e = "ufffd" -> "uFFFD"
      [] OTHER -> e

RECURSIVE JSONUnquote(_)
JSONUnquote(t) ==
    IF t = <<>> \/ Head(t) = "\""
      THEN <<>>
      ELSE IF Head(t) = "\\"
             THEN IF Len(t) < 2
                    THEN <<>>
                    ELSE <<UnescapeChar(t[2])>> \o JSONUnquote(Tail(Tail(t)))
             ELSE <<Head(t)>> \o JSONUnquote(Tail(t))

ValidUTF8(str) == \A i \in 1..Len(str) : str[i] # "xFF"

\* The document names both keys, its policy list is exactly round_robin with
\* empty options, and its health-check service name reads as the given name.
ConfigFor(doc, name) ==
    /\ DOMAIN doc = {"loadBalancingConfig", "healthCheckConfig"}
    /\ doc.loadBalancingConfig = <<[round_robin |-> EmptyObject]>>
    /\ DOMAIN doc.healthCheckConfig = {"serviceName"}
    /\ JSONUnquote(doc.healthCheckConfig.serviceName) = name

\* C18 (as claimed): for every service name, the document DefaultServiceConfig
\* returns has the policy list [round_robin {}] and a health-check service
\* name equal to the given name; NewClientConn passes the document for
\* "sharding.v1.ShardingService".
C18_AnyName ==
    /\ cfgDoc # NoDoc => ConfigFor(cfgDoc, cfgName)
    /\ conn # NoConn =>
           ConfigFor(conn.opts.defaultServiceConfig, ShardingServiceChars)

\* C18 (amended): the same for every service name that is valid UTF-8.
C18_ValidName ==
    /\ (cfgDoc # NoDoc /\ ValidUTF8(cfgName)) => ConfigFor(cfgDoc, cfgName)
    /\ conn # NoConn =>
           ConfigFor(conn.opts.defaultServiceConfig, ShardingServiceChars)

C18_Witness ==
    /\ cfgDoc # NoDoc
    /\ cfgName = <<"s", "\"", "\\">>
    /\ conn.handle = "conn"

\* Call i of the log succeeded and was op on arg.
Did(i, op, arg) ==
    /\ kLog[i].op = op
    /\ kLog[i].arg = arg
    /\ kLog[i].ok

\* op on arg succeeded before call i of the log.
DoneBefore(i, op, arg) == \E j \in 1..(i - 1) : Did(j, op, arg)

\* The mongod nodes: every member of the config replica set and of the shards.
Nodes ==
    {ConfigRS.members[i] : i \in 1..Len(ConfigRS.members)}
    \cup UNION {{Shards[s].members[i] : i \in 1..Len(Shards[s].members)} :
                   s \in 1..Len(Shards)}
ReplicaSets == {ConfigRS.name} \cup {Shards[s].name : s \in 1..Len(Shards)}
FatalOps == {"WaitForHost", "InitReplicaSet", "WaitForPrimary", "CreateAdminUser",
             "ConnectMongos", "AddShard", "EnableSharding", "CreateAppUser",
             "CreateReadOnlyUser"}

C20_ContainersRestored ==
    tPc = "return" => tStopped \subseteq tStartIssued

\* The config server outage test returned because the second stop failed,
\* after it had stopped the first config server.
C20_Witness ==
    /\ tTest = "config"
    /\ tPc = "return"
    /\ tResult = "stop"
    /\ tStopped = {ConfigServers[1]}

\* The refresh goroutine is gone (returned, or the process has died) and no
\* ticker is running.
LoopTerminated ==
    /\ loopPc = "exited" \/ ~Alive
    /\ ~tickerOn

\* C21: a resolver has a refresh goroutine exactly when its Build succeeded,
\* and under fair scheduling, once Close has been called the refresh loop
\* eventually has returned with its ticker stopped.
C21_LoopTerminates ==
    /\ [](rBuilt = "ok" <=> loopPc # "none")
    /\ (closeCalls > 0) ~> LoopTerminated

\* The loop has returned on r.done after it had started its ticker.
C21_Witness ==
    /\ closeCalls > 0
    /\ loopPc = "exited"
    /\ ~tickerOn
    /\ now > 0

\* C26: while the resolver is active (built, not closed), (1) a caller that is
\* about to call ResolveNow can do so at once, whatever the refresh loop is
\* doing and whether or not a tick is waiting; (2) the call forwards exactly
\* one ResolveNow to the inner resolver and leaves the ticker, its channel,
\* the clock and the refresh loop as they were; (3) the ticks go on being
\* served: with the loop at rest, the inner resolver has seen one ResolveNow
\* per manual call and one per elapsed interval.
C26_ManualIndependent ==
    /\ [](\A c \in Callers :
            (Alive /\ rBuilt = "ok" /\ closeCalls = 0 /\ callerPc[c] = "idle"
             /\ opsStarted < MaxOps) => ENABLED ResolveNow(c))
    /\ [][(manualCalls' # manualCalls /\ closeCalls = 0) =>
             /\ manualCalls' = manualCalls + 1
             /\ innerResolves' = innerResolves + 1
             /\ UNCHANGED <<tickerC, tickerOn, interval, now, loopPc>>]_vars
    /\ []((Alive /\ rBuilt = "ok" /\ closeCalls = 0 /\ LoopQuiescent)
            => innerResolves = manualCalls + (now \div interval))

\* A manual call has been forwarded and a tick received by the loop waits to
\* be forwarded too, while a caller is free to make a further manual call.
C26_Witness ==
    /\ rBuilt = "ok"
    /\ closeCalls = 0
    /\ manualCalls = 1
    /\ innerResolves = 1
    /\ loopPc = "resolve"
    /\ opsStarted < MaxOps

\* C27 (as claimed): a resolver built by a periodic builder whose interval
\* was left unset (the zero value) runs its ticker with a positive period,
\* the default of 30 s, and no ticker is ever started with a zero or negative
\* period.
C27_DefaultInterval ==
    /\ rBuilt = "ok" => interval > 0
    /\ panic # "non-positive interval for NewTicker"

\* C29 (as claimed): a polling wait that returned, returned one of three
\* outcomes: success, the context's error, or the timeout error.
C29_ThreeOutcomes ==
    wPc = "done" => wResult \in {"ok", "ctx", "timeout"}

\* C29: a polling wait that was called eventually returns.  It returns
\* success only after a probe that succeeded (the ping answered, a PRIMARY
\* was seen, a PRIMARY other than the old one was seen), the context's error
\* only when the context is done and the wait was between two probes, the
\* timeout error only once the deadline has passed; besides these three,
\* WaitForPrimary returns the error of its connect, before any probe.
C29_WaitTerminates ==
    /\ [](wPc = "done" =>
            \/ /\ wResult = "ok"
               /\ \/ wFn = "WaitForHost" /\ wLast = "ping-ok"
                  \/ wFn = "WaitForPrimary" /\ wLast = "primary"
                  \/ wFn = "WaitForNewPrimary" /\ wLast = "new-primary"
            \/ wResult = "ctx" /\ wCtx
            \/ wResult = "timeout" /\ wNow >= wDeadline
            \/ wResult = "connect-error" /\ wFn = "WaitForPrimary" /\ wLast = "none")
    /\ [][(wResult' = "ctx" /\ wResult # "ctx") => wPc \in {"sleep", "race"}]_vars
    /\ (wPc # "none") ~> (wPc = "done")

\* A WaitForNewPrimary that found no new primary in its first round, waited
\* once, and then saw a new primary on its second member.
C29_Witness ==
    /\ wPc = "done"
    /\ wFn = "WaitForNewPrimary"
    /\ wResult = "ok"
    /\ wMember = 2
    /\ wNow = PollInterval


\* C30 (as claimed): an initialisation operation returns nil exactly when
\* the server accepted its command or refused it because an earlier run had
\* done the same; any other error is returned to the caller.
C30_OtherErrorsReturned ==
    iOp # "none" => (iResult = "nil" <=> iReply.kind \in {"ok", "done"})


====
